---- MODULE Spec2Model ----
(***************************************************************************)
(* Palettebuddy (CHROMA-SYS): the App component's audio-reactive loop, the *)
(* sticky hue accumulator, the state snapshot read by the animation-frame  *)
(* loop, the static flux render, the URL signal writer and the export      *)
(* request, modelled from src/unnamed/part_005 (App), src/unnamed/part_000 *)
(* (Knob) and src/components/FluxDevice.tsx (render pipeline entry).       *)
(*                                                                         *)
(* Numbers.  Band energies are fixed-point with ONE = 1.0.  Hues and the   *)
(* accumulator are fixed-point with DEG units per degree; DEG = 3 * ONE so *)
(* that vol * 4 with vol = (bass + mid + high) / 3 is exact.  The values   *)
(* handed to the render pipeline (spectra, distortion, scale) are          *)
(* fixed-point with ONE units per knob unit, so that bass * 80 is exact.   *)
(*                                                                         *)
(* Left out: the safety lock (it only disables controls that the model     *)
(* leaves enabled), the background image, the sounds and the modals other  *)
(* than the code view.                                                     *)
(***************************************************************************)
EXTENDS Integers, Sequences, FiniteSets, TLC

\* ---------------------------------------------------------------- bounds
MaxEdits == 1      \* configuration edits by the user in one behaviour
MaxStarts == 2     \* audio capture requests in one behaviour
MaxOffsetDeg == 4  \* accumulator cap, in degrees, of the application specifications
MaxWrapDeg == 400  \* accumulator cap, in degrees, of the hue specification

\* ------------------------------------------------------------- constants
ONE == 100                 \* band energy 1.0
DEG == 3 * ONE             \* hue units per degree
FULL == 360 * DEG          \* 360 degrees in hue units
HueGain == 4               \* hueOffset += vol * 4
VolThresholdPct == 2       \* vol > 0.02
BassDistortion == 80       \* fluxDistortion + bass * 80
BassIso == 50              \* fluxIso + bass * 50
HighSpectra == 100         \* fluxSpectra + high * 100
NULL == 0                  \* a ref holding null

FLUX_PATTERNS == <<"wave", "interference", "ripple", "prism", "turbulence",
                   "glitch", "kaleido", "pixelate", "scanline", "vortex">>

\* JavaScript's % : the result takes the sign of the dividend.
JsMod(a, b) == IF a >= 0 THEN a % b ELSE -((-a) % b)

\* Math.round on a hue in fixed point: nearest whole degree, halves go up.
RoundDeg(u) == ((2 * u + DEG) \div (2 * DEG)) * DEG

\* Math.floor(Math.random() * n), the draw r given in thousandths.
RandomBelow(r, n) == (r * n) \div 1000

\* ------------------------------------------------------------ inputs
\* Analyser readings (bass, mid, high) of one tick.
AudioFrames == { [bass |-> 0,   mid |-> 0,  high |-> 0],
                 [bass |-> 2,   mid |-> 2,  high |-> 2],
                 [bass |-> 100, mid |-> 40, high |-> 10] }
\* vertical mouse travel of one knob gesture, in pixels (= degrees)
DeltaYs == {-270, 0, 149}
\* Math.random() results, in thousandths, one sequence per randomize press
RandomDraws == { [i \in 1..13 |-> 0], [i \in 1..13 |-> 999],
                 [i \in 1..13 |-> IF i % 2 = 1 THEN 250 ELSE 700] }

VARIABLES
    app,             \* the useState values of App
    stateRef,        \* stateRef.current
    effectPending,   \* passive effects of the last commit not yet run
    staticPending,   \* requestAnimationFrame(renderStaticFlux) queued
    hueOffset,       \* audioAccumulatorRef.current.hueOffset
    audioContextRef, \* audioContextRef.current (context id or NULL)
    analyserRef,     \* analyserRef.current (context id or NULL)
    openContexts,    \* AudioContexts created and not closed
    started,         \* capture requests made so far
    pendingStarts,   \* getUserMedia promises not settled
    chromaStyle,     \* chromaRef.current.style (transform, filter)
    fluxFrame,       \* last renderFluxToCanvas call on the live canvas
    urlTimer,        \* payload of the pending URL write timeout
    urlSignal,       \* the signal parameter of window.location
    showCode, isGenerating,
    exportCall,      \* the renderFluxToCanvas call of the export in progress
    exportPc,        \* position of handleExport
    edits,           \* configuration edits made so far
    lastOp,          \* the handler that took the last step, with its audio input
    probe            \* inputs and result of a function under test

reactVars == <<app, stateRef, effectPending, staticPending, urlTimer>>
audioVars == <<audioContextRef, analyserRef, openContexts, started, pendingStarts>>
exportVars == <<isGenerating, exportCall, exportPc>>
vars == <<app, stateRef, effectPending, staticPending, urlTimer, hueOffset,
          audioContextRef, analyserRef, openContexts, started, pendingStarts,
          chromaStyle, fluxFrame, urlSignal, showCode,
          isGenerating, exportCall, exportPc, edits, lastOp, probe>>

\* ------------------------------------------------------------ App state
DefaultApp ==
    [ systemMode |-> "chroma",
      hue |-> 280 * DEG, sat |-> 50, lum |-> 50,
      hueB |-> 240 * DEG, satB |-> 60, lumB |-> 30,
      gradientType |-> "none", gradientAngle |-> 135,
      noise |-> 5, fineGrain |-> 0, smudgeActive |-> FALSE,
      smudgeFactor |-> 50, vignette |-> 0, noiseType |-> "fractalNoise",
      noiseFreq |-> 65, noiseOctaves |-> 3, blendMode |-> "overlay",
      fluxHue |-> 210 * DEG, fluxSpectra |-> 50, fluxExposure |-> 50,
      fluxDistortion |-> 30, fluxGrain |-> 40, fluxFineGrain |-> 0,
      fluxSmudgeActive |-> FALSE, fluxSmudgeFactor |-> 50, fluxIso |-> 60,
      fluxSeed |-> 12345, fluxPattern |-> "wave",
      activeCanvasDims |-> FALSE, audioSync |-> FALSE ]

\* The fields the URL write effect depends on and serialises.
PayloadKeys == <<"m", "h", "s", "l", "hb", "sb", "lb", "gt", "ga", "n", "fg",
                 "sa", "sf", "v", "nt", "nf", "no", "bm", "fh", "fs", "fe",
                 "fd", "fgr", "ffg", "fsa", "fsf", "fi", "fseed", "fp">>

Payload(a) ==
    [ m |-> a.systemMode, h |-> a.hue, s |-> a.sat, l |-> a.lum,
      hb |-> a.hueB, sb |-> a.satB, lb |-> a.lumB,
      gt |-> a.gradientType, ga |-> a.gradientAngle,
      n |-> a.noise, fg |-> a.fineGrain, sa |-> a.smudgeActive,
      sf |-> a.smudgeFactor, v |-> a.vignette,
      nt |-> a.noiseType, nf |-> a.noiseFreq, no |-> a.noiseOctaves,
      bm |-> a.blendMode,
      fh |-> a.fluxHue, fs |-> a.fluxSpectra, fe |-> a.fluxExposure,
      fd |-> a.fluxDistortion, fgr |-> a.fluxGrain, ffg |-> a.fluxFineGrain,
      fsa |-> a.fluxSmudgeActive, fsf |-> a.fluxSmudgeFactor,
      fi |-> a.fluxIso, fseed |-> a.fluxSeed, fp |-> a.fluxPattern ]

\* btoa(JSON.stringify(data)): the key/value pairs in the order written.
encodeSignal(data) ==
    [i \in 1..Len(PayloadKeys) |-> <<PayloadKeys[i], data[PayloadKeys[i]]>>]

NoSignal == <<>>
NoTimer == <<>>
NoFrame == [by |-> "none"]
NoStyle == [transform |-> 10000, hueRot |-> -1, saturate |-> 0, brightness |-> 0]

KnobDeltas == {-280, 280}  \* vertical travel of a gesture on a 0..100 knob
SliderStops == {0, 100}    \* pointer position on the slider track, percent
Silence == [bass |-> 0, mid |-> 0, high |-> 0]

\* the record kept of a step that read no audio
Op(name) == [op |-> name, audio |-> Silence]

\* ------------------------------------------------------- passive effects
\* The project runs on React 18 (README.md:45).  A batch of setState calls
\* made in a discrete event (a click) is rendered and its passive effects
\* are run before the event's task ends; a batch made in a continuous event
\* (the knobs' mousemove listeners), in a promise continuation or in a
\* timer is rendered later and its effects run some time after that, at the
\* latest before the next render.  Flushed* are the values left by running
\* the pending effects against the committed state.
NoEffects == [ref |-> FALSE, url |-> FALSE]

\* useEffect at part_005:97: stateRef.current = { ...state }
FlushedStateRef == IF effectPending.ref THEN app ELSE stateRef

\* ... and requestAnimationFrame(renderStaticFlux) when idle in flux mode
WantsStatic(a) == ~a.audioSync /\ a.systemMode = "flux"

FlushedStatic == staticPending \/ (effectPending.ref /\ WantsStatic(app))

\* useEffect at part_005:355: clearTimeout of the old timer, a new timeout
\* whose callback closes over the committed values
FlushedUrlTimer == IF effectPending.url THEN encodeSignal(Payload(app)) ELSE urlTimer

\* Commit with the effects of a discrete event left pending like any others
CommitDeferred(newApp, other, sync) ==
    IF newApp = app /\ ~other
    THEN UNCHANGED reactVars
    ELSE /\ app' = newApp
         /\ stateRef' = FlushedStateRef
         /\ staticPending' = FlushedStatic
         /\ urlTimer' = FlushedUrlTimer
         /\ effectPending' = [ref |-> newApp # app,
                              url |-> Payload(newApp) # Payload(app)]

\* A batch of setState calls: newApp replaces the state values; other says
\* that a state value outside app changes in the same batch; sync says that
\* the batch is made in a discrete event.
Commit(newApp, other, sync) ==
    IF newApp = app /\ ~other
    THEN UNCHANGED reactVars
    ELSE LET changed == newApp # app
             urlChanged == Payload(newApp) # Payload(app)
         IN  /\ app' = newApp
             /\ stateRef' = IF sync /\ changed THEN newApp ELSE FlushedStateRef
             /\ staticPending' = (FlushedStatic \/ (sync /\ changed /\ WantsStatic(newApp)))
             /\ urlTimer' = IF sync /\ urlChanged
                            THEN encodeSignal(Payload(newApp)) ELSE FlushedUrlTimer
             /\ effectPending' = IF sync THEN NoEffects
                                 ELSE [ref |-> changed, url |-> urlChanged]

PassiveEffects ==
    /\ effectPending.ref \/ effectPending.url
    /\ stateRef' = FlushedStateRef
    /\ staticPending' = FlushedStatic
    /\ urlTimer' = FlushedUrlTimer
    /\ effectPending' = NoEffects
    /\ lastOp' = Op("other")
    /\ UNCHANGED <<app, hueOffset, audioVars, chromaStyle, fluxFrame, urlSignal, showCode, exportVars, edits, probe>>

\* the setTimeout callback of the URL write effect
UrlTimerFires ==
    /\ urlTimer # NoTimer
    /\ urlSignal' = urlTimer
    /\ urlTimer' = NoTimer
    /\ lastOp' = Op("other")
    /\ UNCHANGED <<app, stateRef, effectPending, staticPending, hueOffset,
                   audioVars, chromaStyle, fluxFrame, showCode,
                   exportVars, edits, probe>>

\* ------------------------------------------------------------- rendering
\* The arguments of one renderFluxToCanvas call.
FluxArgs(hue, spectra, exposure, distortion, scale, seed, pattern, sa, sf) ==
    [ hue |-> hue, spectra |-> spectra, exposure |-> exposure,
      distortion |-> distortion, scale |-> scale, seed |-> seed,
      pattern |-> pattern, smudgeActive |-> sa, smudgeFactor |-> sf ]

\* AccumulatedHue without the modulo
AccumulatedHueUnwrapped(hue, offset) == hue + offset

\* accumulatedHue, part_005:259
AccumulatedHue(hue, offset) == JsMod(hue + offset, FULL)

\* DynamicArgs with the hue read from the committed state, not the snapshot
DynamicArgsLive(state, bass, high, offset) ==
    FluxArgs(JsMod(app.fluxHue + offset, FULL),
             state.fluxSpectra * ONE + high * HighSpectra,
             state.fluxExposure * ONE,
             state.fluxDistortion * ONE + bass * BassDistortion,
             state.fluxIso * ONE + bass * BassIso,
             state.fluxSeed, state.fluxPattern,
             state.fluxSmudgeActive, state.fluxSmudgeFactor)

\* loop, part_005:249-261
DynamicArgs(state, bass, high, offset) ==
    FluxArgs(AccumulatedHue(state.fluxHue, offset),
             state.fluxSpectra * ONE + high * HighSpectra,
             state.fluxExposure * ONE,
             state.fluxDistortion * ONE + bass * BassDistortion,
             state.fluxIso * ONE + bass * BassIso,
             state.fluxSeed, state.fluxPattern,
             state.fluxSmudgeActive, state.fluxSmudgeFactor)

\* renderStaticFlux, part_005:308
StaticArgs(state) ==
    FluxArgs(state.fluxHue, state.fluxSpectra * ONE, state.fluxExposure * ONE,
             state.fluxDistortion * ONE, state.fluxIso * ONE,
             state.fluxSeed, state.fluxPattern,
             state.fluxSmudgeActive, state.fluxSmudgeFactor)

\* generateFluxImage called by handleExport, part_005:471, and its
\* renderFluxToCanvas call, FluxDevice.tsx:1009
ExportArgs(a) ==
    FluxArgs(a.fluxHue, a.fluxSpectra * ONE, a.fluxExposure * ONE,
             a.fluxDistortion * ONE, a.fluxIso * ONE,
             a.fluxSeed, a.fluxPattern,
             a.fluxSmudgeActive, a.fluxSmudgeFactor)

\* VolAbove with the comparison vol >= 0.02
VolAtLeast(f) == (f.bass + f.mid + f.high) * 100 >= VolThresholdPct * 3 * ONE

\* vol > 0.02 with vol = (bass + mid + high) / 3
VolAbove(f) == (f.bass + f.mid + f.high) * 100 > VolThresholdPct * 3 * ONE

\* vol * 4 degrees, in hue units
HueStep(f) == ((f.bass + f.mid + f.high) * HueGain * DEG) \div (3 * ONE)

\* hueOffset after the accumulator update of one analysed tick
Accumulate(offset, f) == IF VolAbove(f) THEN offset + HueStep(f) ELSE offset

\* the style the loop writes on the chroma layer, part_005:271-281
ReactiveStyle(bass, mid, high, offset) ==
    [transform |-> 10000 + bass * 25,
     hueRot |-> JsMod(offset, FULL),
     saturate |-> 10000 + mid * 150,
     brightness |-> 10000 + high * 50]

\* One run of the requestAnimationFrame loop; f is what the analyser reads.
loop(f) ==
    LET state == stateRef
        analyse == state.audioSync /\ analyserRef # NULL
        bass == IF analyse THEN f.bass ELSE 0
        mid == IF analyse THEN f.mid ELSE 0
        high == IF analyse THEN f.high ELSE 0
        offset == IF analyse THEN Accumulate(hueOffset, f) ELSE hueOffset
        drawsFlux == state.systemMode = "flux" /\ state.activeCanvasDims /\ state.audioSync
        drawsChroma == state.systemMode = "chroma" /\ state.audioSync
    IN  /\ offset <= MaxOffsetDeg * DEG
        /\ analyse \/ f = Silence
        /\ hueOffset' = offset
        /\ fluxFrame' = IF drawsFlux
                        THEN [by |-> "loop", args |-> DynamicArgs(state, bass, high, offset),
                              snap |-> state, bass |-> bass, high |-> high,
                              offset |-> offset, listening |-> app.audioSync]
                        ELSE fluxFrame
        /\ chromaStyle' = IF drawsChroma
                          THEN ReactiveStyle(bass, mid, high, offset)
                          ELSE chromaStyle
        /\ lastOp' = [op |-> "tick", audio |-> IF analyse THEN f ELSE Silence]
        /\ UNCHANGED <<reactVars, audioVars, urlSignal, showCode, exportVars,
                       edits, probe>>

\* The queued requestAnimationFrame(renderStaticFlux) callback.
renderStaticFlux ==
    LET state == stateRef
        draws == state.systemMode = "flux" /\ state.activeCanvasDims
    IN  /\ staticPending
        /\ staticPending' = FALSE
        /\ fluxFrame' = IF draws
                        THEN [by |-> "static", args |-> StaticArgs(state),
                              snap |-> state, bass |-> 0, high |-> 0,
                              offset |-> hueOffset, listening |-> app.audioSync]
                        ELSE fluxFrame
        /\ lastOp' = Op("other")
        /\ UNCHANGED <<app, stateRef, effectPending, urlTimer, hueOffset,
                       audioVars, chromaStyle, urlSignal,
                       showCode, exportVars, edits, probe>>

\* ------------------------------------------------------------ audio sync
\* BakedApp without the hue updaters: the hue snaps back
BakedAppDropped == [app EXCEPT !.audioSync = FALSE]

\* BakedApp that also keeps the distortion of the last analysed tick
BakedAppEffective ==
    IF app.systemMode = "chroma"
    THEN [app EXCEPT !.audioSync = FALSE,
                     !.hue = JsMod(@ + hueOffset, FULL),
                     !.hueB = JsMod(@ + hueOffset, FULL)]
    ELSE [app EXCEPT !.audioSync = FALSE,
                     !.fluxHue = JsMod(@ + hueOffset, FULL),
                     !.fluxDistortion = @ + (lastOp.audio.bass * BassDistortion) \div ONE]

\* BakedApp with the hues taken from the snapshot the loop reads
BakedAppFromSnapshot ==
    IF app.systemMode = "chroma"
    THEN [app EXCEPT !.audioSync = FALSE,
                     !.hue = JsMod(stateRef.hue + hueOffset, FULL),
                     !.hueB = JsMod(stateRef.hueB + hueOffset, FULL)]
    ELSE [app EXCEPT !.audioSync = FALSE,
                     !.fluxHue = JsMod(stateRef.fluxHue + hueOffset, FULL)]

\* BakedApp with the offset added to the hues of both modes
BakedAppBothModes ==
    [app EXCEPT !.audioSync = FALSE,
                !.hue = JsMod(@ + hueOffset, FULL),
                !.hueB = JsMod(@ + hueOffset, FULL),
                !.fluxHue = JsMod(@ + hueOffset, FULL)]

\* toggleAudioSync, the branch taken when audioSync is true: the state the
\* batched setAudioSync(false) and hue updaters leave (part_005:146-156).
BakedApp ==
    IF app.systemMode = "chroma"
    THEN [app EXCEPT !.audioSync = FALSE,
                     !.hue = JsMod(@ + hueOffset, FULL),
                     !.hueB = JsMod(@ + hueOffset, FULL)]
    ELSE [app EXCEPT !.audioSync = FALSE,
                     !.fluxHue = JsMod(@ + hueOffset, FULL)]

\* the accumulator after the same branch (part_005:170)
ResetOffset == 0

\* the refs and styles the same branch writes (part_005:158-170)
StopRefs ==
    /\ openContexts' = IF audioContextRef # NULL
                       THEN openContexts \ {audioContextRef} ELSE openContexts
    /\ audioContextRef' = NULL
    /\ chromaStyle' = NoStyle
    /\ hueOffset' = ResetOffset

\* The SYNC button of the chroma device, pressed while audioSync is true.
toggleAudioSyncStop ==
    /\ app.systemMode = "chroma"
    /\ app.audioSync
    /\ Commit(BakedApp, FALSE, TRUE)
    /\ StopRefs
    /\ lastOp' = Op("stop")
    /\ UNCHANGED <<analyserRef, started, pendingStarts, fluxFrame,
                   urlSignal, showCode, exportVars, edits, probe>>

\* The SYNC button pressed while audioSync is false: getUserMedia is awaited.
toggleAudioSyncStart ==
    /\ app.systemMode = "chroma"
    /\ ~app.audioSync
    /\ started < MaxStarts
    /\ started' = started + 1
    /\ pendingStarts' = pendingStarts + 1
    /\ lastOp' = Op("other")
    /\ UNCHANGED <<reactVars, hueOffset, audioContextRef, analyserRef,
                   openContexts, chromaStyle, fluxFrame,
                   urlSignal, showCode, exportVars, edits, probe>>

\* getUserMedia resolves: part_005:176-188
startGranted ==
    LET ctx == started - pendingStarts + 1
    IN  /\ pendingStarts > 0
        /\ pendingStarts' = pendingStarts - 1
        /\ openContexts' = openContexts \cup {ctx}
        /\ audioContextRef' = ctx
        /\ analyserRef' = ctx
        /\ Commit([app EXCEPT !.audioSync = TRUE], FALSE, FALSE)
        /\ lastOp' = Op("other")
        /\ UNCHANGED <<hueOffset, started, chromaStyle, fluxFrame,
                       urlSignal, showCode, exportVars, edits, probe>>

\* getUserMedia rejects: the catch at part_005:189
startFailed ==
    /\ pendingStarts > 0
    /\ pendingStarts' = pendingStarts - 1
    /\ Commit([app EXCEPT !.audioSync = FALSE], FALSE, FALSE)
    /\ lastOp' = Op("fail")
    /\ UNCHANGED <<hueOffset, audioContextRef, analyserRef, openContexts,
                   started, chromaStyle, fluxFrame, urlSignal,
                   showCode, exportVars, edits, probe>>

\* handleShowCode: stops audio sync when it is on, then opens the modal.
handleShowCode ==
    /\ showCode' = TRUE
    /\ IF app.audioSync
       THEN /\ Commit(BakedApp, TRUE, TRUE)
            /\ StopRefs
            /\ lastOp' = Op("stop")
       ELSE /\ Commit(app, ~showCode, TRUE)
            /\ lastOp' = Op("other")
            /\ UNCHANGED <<hueOffset, audioContextRef, openContexts, chromaStyle>>
    /\ UNCHANGED <<analyserRef, started, pendingStarts, fluxFrame,
                   urlSignal, exportVars, edits, probe>>

\* -------------------------------------------------------- user controls
\* Knob.handleMove with fullCircle, from a rotation synced to value
KnobFullCircle(value, deltaY) ==
    LET moved == JsMod(value + deltaY * DEG, FULL)
        newRot == IF moved < 0 THEN moved + FULL ELSE moved
    IN  RoundDeg(newRot)

\* Knob.handleMove on a min=0, max=100 knob; rotations in tenths of a degree
KnobLinear(value, deltaY) ==
    LET cur == value * 28
        raw == cur + deltaY * 10
        newRot == IF raw < 0 THEN 0 ELSE IF raw > 2800 THEN 2800 ELSE raw
    IN  (2 * newRot + 28) \div 56

\* Slider.handleInteract on a min=0, max=100 slider, pointer at pct percent
SliderValue(pct) == IF pct < 0 THEN 0 ELSE IF pct > 100 THEN 100 ELSE pct

\* A control's onChange: one batch of setter calls, counted against MaxEdits.
Edit(newApp, sync) ==
    /\ edits < MaxEdits
    /\ newApp # app
    /\ edits' = edits + 1
    /\ Commit(newApp, FALSE, sync)
    /\ lastOp' = Op("edit")
    /\ UNCHANGED <<hueOffset, audioVars, chromaStyle, fluxFrame,
                   urlSignal, showCode, exportVars, probe>>

onHueChange(deltaY) ==
    /\ app.systemMode = "chroma"
    /\ Edit([app EXCEPT !.hue = KnobFullCircle(@, deltaY)], FALSE)

onHueBChange(deltaY) ==
    /\ app.systemMode = "chroma"
    /\ Edit([app EXCEPT !.hueB = KnobFullCircle(@, deltaY)], FALSE)

onFluxHueChange(deltaY) ==
    /\ app.systemMode = "flux"
    /\ Edit([app EXCEPT !.fluxHue = KnobFullCircle(@, deltaY)], FALSE)

onSpectraChange(deltaY) ==
    /\ app.systemMode = "flux"
    /\ Edit([app EXCEPT !.fluxSpectra = KnobLinear(@, deltaY)], FALSE)

onDistortionChange(deltaY) ==
    /\ app.systemMode = "flux"
    /\ Edit([app EXCEPT !.fluxDistortion = KnobLinear(@, deltaY)], FALSE)

onExposureChange(deltaY) ==
    /\ app.systemMode = "flux"
    /\ Edit([app EXCEPT !.fluxExposure = KnobLinear(@, deltaY)], FALSE)

onIsoChange(deltaY) ==
    /\ app.systemMode = "flux"
    /\ Edit([app EXCEPT !.fluxIso = KnobLinear(@, deltaY)], FALSE)

onSmudgeActiveChange ==
    /\ app.systemMode = "flux"
    /\ Edit([app EXCEPT !.fluxSmudgeActive = ~@], TRUE)

\* the slider reports on mousedown (a discrete event) and on mousemove
onSmudgeFactorChange(pct, mousedown) ==
    /\ app.systemMode = "flux" /\ app.fluxSmudgeActive
    /\ Edit([app EXCEPT !.fluxSmudgeFactor = SliderValue(pct)], mousedown)

\* cycleFluxPattern, part_005:433
IndexOf(p) == CHOOSE i \in 1..Len(FLUX_PATTERNS) : FLUX_PATTERNS[i] = p

\* NextPattern that stays on the last pattern of the list
NextPatternNoWrap(p) ==
    IF IndexOf(p) = Len(FLUX_PATTERNS) THEN p ELSE FLUX_PATTERNS[IndexOf(p) + 1]

NextPattern(p) == FLUX_PATTERNS[(IndexOf(p) % Len(FLUX_PATTERNS)) + 1]

cycleFluxPattern ==
    /\ app.systemMode = "flux"
    /\ Edit([app EXCEPT !.fluxPattern = NextPattern(@)], TRUE)

\* handleRandomize, part_005:394; r[i] is the i-th Math.random() result
Randomized(r) ==
    IF app.systemMode = "chroma"
    THEN [app EXCEPT !.hue = RandomBelow(r[1], 360) * DEG,
                     !.sat = RandomBelow(r[2], 80) + 10,
                     !.lum = RandomBelow(r[3], 60) + 20,
                     !.hueB = RandomBelow(r[4], 360) * DEG,
                     !.satB = RandomBelow(r[5], 80) + 10,
                     !.lumB = RandomBelow(r[6], 60) + 20,
                     !.gradientType = IF r[7] > 600
                                      THEN (IF r[8] > 500 THEN "linear" ELSE "radial")
                                      ELSE "none",
                     !.gradientAngle = RandomBelow(r[9], 360),
                     !.noise = RandomBelow(r[10], 20),
                     !.fineGrain = RandomBelow(r[11], 20),
                     !.vignette = RandomBelow(r[12], 40),
                     !.noiseFreq = 30 + (r[13] * 150) \div 1000]
    ELSE [app EXCEPT !.fluxHue = RandomBelow(r[1], 360) * DEG,
                     !.fluxSpectra = RandomBelow(r[2], 100),
                     !.fluxExposure = RandomBelow(r[3], 100),
                     !.fluxDistortion = RandomBelow(r[4], 100),
                     !.fluxGrain = RandomBelow(r[5], 60) + 10,
                     !.fluxFineGrain = RandomBelow(r[6], 30),
                     !.fluxIso = RandomBelow(r[7], 100),
                     !.fluxSeed = RandomBelow(r[8], 100000),
                     !.fluxPattern = FLUX_PATTERNS[RandomBelow(r[9], Len(FLUX_PATTERNS)) + 1]]

handleRandomize(r) == Edit(Randomized(r), TRUE)

\* the Chroma / Flux rocker switch
setSystemMode(m) ==
    /\ m # app.systemMode
    /\ Commit([app EXCEPT !.systemMode = m], FALSE, TRUE)
    /\ lastOp' = Op("other")
    /\ UNCHANGED <<hueOffset, audioVars, chromaStyle, fluxFrame,
                   urlSignal, showCode, exportVars, edits, probe>>

\* updateCanvasDims: the viewport is measured and setActiveCanvasDims called
updateCanvasDims ==
    /\ ~app.activeCanvasDims
    /\ Commit([app EXCEPT !.activeCanvasDims = TRUE], FALSE, FALSE)
    /\ lastOp' = Op("other")
    /\ UNCHANGED <<hueOffset, audioVars, chromaStyle, fluxFrame,
                   urlSignal, showCode, exportVars, edits, probe>>

\* ---------------------------------------------------------------- export
NoExport == [kind |-> "none"]

\* handleExport up to the first await: setIsGenerating(true), then
\* generateFluxImage obtains the context and calls renderFluxToCanvas.  The
\* call records the grain settings it was given, which decide the textures
\* it will wait for.
handleExport(ctxOk) ==
    /\ exportPc = "idle"
    /\ isGenerating' = TRUE
    /\ Commit(app, ~isGenerating, TRUE)
    /\ IF app.systemMode = "flux"
       THEN IF ctxOk
            THEN /\ exportCall' = [kind |-> "flux", args |-> ExportArgs(app),
                                    grain |-> app.fluxGrain,
                                    fineGrain |-> app.fluxFineGrain]
                 /\ exportPc' = "rendered"
            ELSE /\ exportCall' = NoExport
                 /\ exportPc' = "failed"
       ELSE /\ exportCall' = [kind |-> "chroma", grain |-> app.noise,
                               fineGrain |-> app.fineGrain]
            /\ exportPc' = IF ctxOk THEN "rendered" ELSE "failed"
    /\ lastOp' = Op("export")
    /\ UNCHANGED <<hueOffset, audioVars, chromaStyle, fluxFrame,
                   urlSignal, showCode, edits, probe>>

\* the texture whose load the export is waiting for: the coarse one first
\* when the call was given a grain above 0, then the fine one
exportAwaits ==
    CASE exportPc = "rendered" /\ exportCall.grain > 0 -> "coarse"
      [] exportPc \in {"rendered", "coarse"} /\ exportCall.fineGrain > 0 -> "fine"
      [] OTHER -> "none"

\* The load event, or the error event, of the image awaited.  onload
\* composites the texture and resolves the promise.  generateImage sets
\* onerror = reject, so the chroma export fails; generateFluxImage sets no
\* onerror, so after an error nothing resolves the promise it awaits.
imageSettles(loaded) ==
    /\ exportAwaits # "none"
    /\ exportPc' = IF loaded THEN exportAwaits
                   ELSE IF exportCall.kind = "chroma" THEN "rejected" ELSE "stalled"
    /\ lastOp' = Op("other")
    /\ UNCHANGED <<reactVars, hueOffset, audioVars, chromaStyle, fluxFrame,
                   urlSignal, showCode, isGenerating, exportCall, edits, probe>>

\* exportSettles that triggers the download whatever happened
exportSettlesDownloads ==
    /\ exportPc \notin {"idle", "stalled"}
    /\ exportAwaits = "none"
    /\ exportPc' = "idle"
    /\ exportCall' = NoExport
    /\ isGenerating' = FALSE
    /\ Commit(app, isGenerating, FALSE)
    /\ lastOp' = Op("download")
    /\ UNCHANGED <<hueOffset, audioVars, chromaStyle, fluxFrame,
                   urlSignal, showCode, edits, probe>>

\* the rest of handleExport: triggerDownload, or the catch with its alert
\* (of the context error, or of a rejected texture load), then the finally
\* with setIsGenerating(false); it runs when the promise handleExport
\* awaits is settled
exportSettles ==
    /\ exportPc \notin {"idle", "stalled"}
    /\ exportAwaits = "none"
    /\ exportPc' = "idle"
    /\ exportCall' = NoExport
    /\ isGenerating' = FALSE
    /\ Commit(app, isGenerating, FALSE)
    /\ lastOp' = Op(CASE exportPc = "failed" -> "alert"
                      [] exportPc = "rejected" -> "alert load"
                      [] OTHER -> "download")
    /\ UNCHANGED <<hueOffset, audioVars, chromaStyle, fluxFrame,
                   urlSignal, showCode, edits, probe>>

\* ------------------------------------------------------- specification
NoProbe == <<>>

\* every variable of the application after the first render
ProgramInit ==
    /\ app = DefaultApp
    /\ stateRef = DefaultApp
    /\ effectPending = NoEffects
    /\ staticPending = FALSE
    /\ hueOffset = 0
    /\ audioContextRef = NULL
    /\ analyserRef = NULL
    /\ openContexts = {}
    /\ started = 0
    /\ pendingStarts = 0
    /\ chromaStyle = NoStyle
    /\ fluxFrame = NoFrame
    /\ urlTimer = encodeSignal(Payload(DefaultApp))
    /\ urlSignal = NoSignal
    /\ showCode = FALSE
    /\ isGenerating = FALSE
    /\ exportCall = NoExport
    /\ exportPc = "idle"
    /\ edits = 0
    /\ lastOp = Op("mount")

Init == ProgramInit /\ probe = NoProbe

\* The program after construction with one call of a function of the source
\* set up in the probe: inputs holds the argument records to try.
InitProbe(inputs) == ProgramInit /\ probe \in inputs

\* the audio session, the frame callbacks and the mode switch
Session ==
    \/ PassiveEffects
    \/ \E f \in AudioFrames : loop(f)
    \/ renderStaticFlux
    \/ toggleAudioSyncStart
    \/ startGranted
    \/ startFailed
    \/ toggleAudioSyncStop
    \/ handleShowCode
    \/ \E m \in {"chroma", "flux"} : setSystemMode(m)
    \/ updateCanvasDims

Controls ==
    \/ \E d \in DeltaYs : onHueChange(d)
    \/ \E d \in DeltaYs : onHueBChange(d)
    \/ \E d \in DeltaYs : onFluxHueChange(d)
    \/ \E d \in KnobDeltas : onSpectraChange(d)
    \/ \E d \in KnobDeltas : onDistortionChange(d)
    \/ \E d \in KnobDeltas : onExposureChange(d)
    \/ \E d \in KnobDeltas : onIsoChange(d)
    \/ onSmudgeActiveChange
    \/ \E p \in SliderStops, b \in BOOLEAN : onSmudgeFactorChange(p, b)
    \/ cycleFluxPattern
    \/ \E r \in RandomDraws : handleRandomize(r)

\* the hue knobs of the two devices
HueEdits ==
    \/ \E d \in DeltaYs : onHueChange(d)
    \/ \E d \in DeltaYs : onFluxHueChange(d)

Next == Session \/ HueEdits

Spec == Init /\ [][Next]_vars

\* The application under the scheduling the browser and React guarantee: a
\* pending passive effect is run, a queued animation-frame callback is
\* called, the loop keeps being called, the mount effect measures the
\* viewport.  Nothing obliges the user to act or getUserMedia to settle.
Fairness ==
    /\ WF_vars(PassiveEffects)
    /\ WF_vars(renderStaticFlux)
    /\ WF_vars(\E f \in AudioFrames : loop(f))
    /\ WF_vars(updateCanvasDims)

SpecLive == Init /\ [][Next]_vars /\ Fairness

\* the same with the share-link timer
NextUrl == Session \/ UrlTimerFires

SpecUrl == Init /\ [][NextUrl]_vars

\* the same with the export dialog
NextExport ==
    \/ Session
    \/ \E ok \in BOOLEAN : handleExport(ok)
    \/ \E loaded \in BOOLEAN : imageSettles(loaded)
    \/ exportSettles

SpecExport == Init /\ [][NextExport]_vars

\* The export with its texture loads, in either mode and with the grain
\* settings the randomize button gives.  The browser fires the load or the error event
\* of an image that was given a source, and a promise that is settled has
\* its continuation run; nothing else is obliged to happen.
SpecSettle ==
    /\ Init
    /\ [][\/ PassiveEffects
          \/ renderStaticFlux
          \/ \E m \in {"chroma", "flux"} : setSystemMode(m)
          \/ updateCanvasDims
          \/ \E r \in RandomDraws : handleRandomize(r)
          \/ \E ok \in BOOLEAN : handleExport(ok)
          \/ \E loaded \in BOOLEAN : imageSettles(loaded)
          \/ exportSettles]_vars
    /\ WF_vars(\E loaded \in BOOLEAN : imageSettles(loaded))
    /\ WF_vars(exportSettles)

\* The effective hue on its own: a persisted hue drawn from HueSamples, the
\* accumulator advanced by the tick rule, the hue computed as the loop does.
HueSamples == {0, 1, 210 * DEG, FULL - 1}

LoudFrames == { [bass |-> 100, mid |-> 100, high |-> 100],
                [bass |-> 100, mid |-> 100, high |-> 90] }

InitHue ==
    /\ ProgramInit
    /\ probe \in { [hue |-> h, offset |-> 0, eff |-> AccumulatedHue(h, 0)] : h \in HueSamples }

accumulatedHueTick(f) ==
    LET offset == Accumulate(probe.offset, f)
    IN  /\ offset <= MaxWrapDeg * DEG
        /\ probe' = [probe EXCEPT !.offset = offset,
                                  !.eff = AccumulatedHue(probe.hue, offset)]
        /\ UNCHANGED <<reactVars, hueOffset, audioVars, chromaStyle, fluxFrame,
                       urlSignal, showCode, exportVars, edits, lastOp>>

NextHue == \E f \in LoudFrames : accumulatedHueTick(f)

SpecHue == InitHue /\ [][NextHue]_vars

\* ------------------------------------------------------ canvas 2D context
\* every variable of the application, left alone by a function under test
programVars == <<reactVars, hueOffset, audioVars, chromaStyle, fluxFrame,
                 urlSignal, showCode, exportVars, edits, lastOp>>

\* A canvas image is the list of the layers painted on it, bottom first.  A
\* layer records what was painted, with which numbers, from which source
\* image and under which drawing state, so two images are equal exactly
\* when the same operations were applied in the same states to the same
\* content.  fillStyle is not part of the drawing state here: every fill of
\* the pipeline assigns it in the statement before, so a fill carries it.
BlankImage == <<>>

\* the drawing state of a context just created (globalAlpha in thousandths)
DefaultDrawState ==
    [ gco |-> "source-over", filter |-> "none", smoothing |-> TRUE,
      alpha |-> 1000, xform |-> <<>>, clip |-> <<>> ]

\* canvas.getContext('2d') of a canvas created, or resized, to size; reads
\* and ops count the accesses made to the buffer, log lists the stages run
NewContext(size) ==
    [ size |-> size, buf |-> BlankImage, ds |-> DefaultDrawState,
      stack |-> <<>>, reads |-> 0, ops |-> 0, log |-> <<>> ]

Layer(what, p, src, ds) == [what |-> what, p |-> p, src |-> src, ds |-> ds]

\* the operations of a renderer, in the order of its statements
\* an assignment to globalCompositeOperation, filter, imageSmoothingEnabled
\* or globalAlpha
SetGco(v) == [k |-> "gco", v |-> v]
SetState(field, v) == [k |-> field, v |-> v]
Transform(t, p) == [k |-> "xform", v |-> [t |-> t, p |-> p]]
Clip(p) == [k |-> "clip", v |-> p]
Save == [k |-> "save"]
Restore == [k |-> "restore"]
\* getImageData, or drawImage(ctx.canvas) into another canvas
ReadCanvas == [k |-> "read"]
\* fillRect, fill, drawImage; covers: opaque and over the whole canvas
Paint(what, p, src, covers) ==
    [k |-> "paint", what |-> what, p |-> p, src |-> src, covers |-> covers]
\* putImageData of an image computed from the pixels read
PutImageData(what, p) == [k |-> "put", what |-> what, p |-> p]
Stage(name) == [k |-> "stage", v |-> name]

\* one operation applied to the context c
Apply(c, op) ==
    CASE op.k = "gco" -> [c EXCEPT !.ds.gco = op.v]
      [] op.k = "filter" -> [c EXCEPT !.ds.filter = op.v]
      [] op.k = "smoothing" -> [c EXCEPT !.ds.smoothing = op.v]
      [] op.k = "alpha" -> [c EXCEPT !.ds.alpha = op.v]
      [] op.k = "xform" -> [c EXCEPT !.ds.xform = Append(@, op.v)]
      [] op.k = "clip" -> [c EXCEPT !.ds.clip = Append(@, [t |-> "clip", p |-> op.v])]
      [] op.k = "save" -> [c EXCEPT !.stack = Append(@, c.ds)]
      [] op.k = "restore" ->
            IF c.stack = <<>> THEN c
            ELSE [c EXCEPT !.ds = c.stack[Len(c.stack)],
                           !.stack = SubSeq(@, 1, Len(@) - 1)]
      [] op.k = "read" -> [c EXCEPT !.reads = @ + 1]
      [] op.k = "paint" ->
            LET layer == Layer(op.what, op.p, op.src, c.ds)
                replaces == /\ op.covers
                            /\ c.ds = DefaultDrawState
            IN  [c EXCEPT !.buf = IF replaces THEN <<layer>> ELSE Append(@, layer),
                          !.ops = @ + 1]
      [] op.k = "put" ->
            [c EXCEPT !.buf = Append(@, Layer(op.what, op.p, BlankImage, DefaultDrawState)),
                      !.ops = @ + 1]
      [] op.k = "stage" -> [c EXCEPT !.log = Append(@, op.v)]

\* the operations prog[i..j] applied in order; the range is halved and the
\* first half is evaluated (the test on half.ops) before the second starts,
\* which keeps the evaluation shallow
RECURSIVE RunRange(_, _, _, _)
RunRange(c, prog, i, j) ==
    IF i > j THEN c
    ELSE IF i = j THEN Apply(c, prog[i])
    ELSE LET m == (i + j) \div 2
             half == RunRange(c, prog, i, m)
         IN  IF half.ops >= 0 THEN RunRange(half, prog, m + 1, j) ELSE half

Run(c, prog) == RunRange(c, prog, 1, Len(prog))

RECURSIVE FlattenRange(_, _, _)
FlattenRange(progs, i, j) ==
    IF i > j THEN <<>>
    ELSE IF i = j THEN progs[i]
    ELSE LET m == (i + j) \div 2
         IN  FlattenRange(progs, i, m) \o FlattenRange(progs, m + 1, j)

Flatten(progs) == FlattenRange(progs, 1, Len(progs))

\* ------------------------------------------------------ render pipeline
\* mulberry32(a): the generator is the closure variable a, advanced by a
\* constant at every call, so it is given by its seed and the number of
\* calls made; a result is named by the generator that produced it.
mulberry32(a) == [seed |-> a, calls |-> 0]

NextDraw(rng) == [rng EXCEPT !.calls = @ + 1]

\* drawPsychedelicField: the gradient fills the canvas with opaque colours,
\* its angle the first result of the generator; the orbs take the results
\* from the second on (their number is the second result).
drawPsychedelicField(c, hue, spectra, seed) ==
    LET rng == mulberry32(seed)
        angle == NextDraw(rng)
        numOrbs == NextDraw(angle)
    IN  Run(c, << Paint("gradient", <<hue, spectra, angle.seed, angle.calls>>, BlankImage, TRUE),
                  SetGco("hard-light"),
                  Paint("orbs", <<hue, numOrbs.seed, numOrbs.calls>>, BlankImage, FALSE),
                  SetGco("source-over") >>)

renderLiquidWave(c, distortion, scale, seed) ==
    Run(c, << ReadCanvas, PutImageData("wave", <<distortion, scale, seed>>) >>)

renderLinearPrism(c, distortion, spectra, seed) ==
    LET temp == c.buf
    IN  Run(c, << ReadCanvas,
                  Paint("#000", <<>>, BlankImage, TRUE), SetGco("screen"),
                  Save, Transform("translate", <<distortion, seed>>),
                  Paint("drawImage", <<>>, temp, FALSE), SetGco("multiply"),
                  Paint("#f00", <<>>, BlankImage, FALSE), Restore,
                  SetGco("screen"), Paint("drawImage", <<>>, temp, FALSE),
                  SetGco("multiply"), Paint("#0f0", <<>>, BlankImage, FALSE),
                  SetGco("screen"), Save, Transform("translate", <<distortion, seed, spectra>>),
                  Paint("drawImage", <<>>, temp, FALSE), SetGco("multiply"),
                  Paint("#00f", <<>>, BlankImage, FALSE), Restore,
                  SetGco("source-over") >>)

\* renderDataMosh.  A slice takes five generator results (h, y, xOff and the
\* two conditions).  A statement guarded by a generator result is a layer
\* named by that result; the save and restore around the second are
\* balanced whether it runs or not.
renderDataMosh(c, distortion, seed) ==
    LET Slice(i) ==
            LET first == 5 * (i - 1)
            IN  << ReadCanvas,
                   Paint("black if", <<seed, first + 4, first + 1, first + 2>>, BlankImage, FALSE),
                   Paint("slice", <<distortion, seed, first + 1, first + 2, first + 3>>, BlankImage, FALSE),
                   Save, SetGco("difference"),
                   Paint("white if", <<seed, first + 5, first + 1, first + 2>>, BlankImage, FALSE),
                   Restore >>
        channelShift == (distortion * 40) \div (100 * ONE)
        temp == c.buf
        channels ==
            IF channelShift > 0
            THEN << ReadCanvas, SetGco("screen"), Paint("black", <<>>, BlankImage, FALSE),
                    Paint("drawImage", <<-channelShift>>, temp, FALSE), SetGco("multiply"),
                    Paint("red", <<>>, BlankImage, FALSE), SetGco("screen"),
                    Paint("drawImage", <<channelShift>>, temp, FALSE), SetGco("multiply"),
                    Paint("blue", <<>>, BlankImage, FALSE), SetGco("screen"),
                    Paint("drawImage", <<0>>, temp, FALSE), SetGco("multiply"),
                    Paint("lime", <<>>, BlankImage, FALSE), SetGco("source-over") >>
            ELSE <<>>
        num == 5 + (distortion * 30) \div (100 * ONE)
        slices ==
            IF distortion > 5 * ONE
            THEN Flatten([i \in 1..num |-> Slice(i)])
            ELSE <<>>
    IN  Run(c, channels \o slices)

renderFluidDisplacement(c, distortion, scale, seed) ==
    Run(c, << ReadCanvas, PutImageData("turbulence", <<distortion, scale, seed>>) >>)

\* renderLinearMoire that leaves the 'difference' mode set
renderLinearMoireNoReset(c, hue, distortion, scale, seed) ==
    Run(c, << SetGco("difference"),
              Paint("stripes", <<hue, scale>>, BlankImage, FALSE),
              Save, Transform("translate", <<1>>), Transform("rotate", <<distortion>>),
              Transform("translate", <<-1>>), Transform("translate", <<distortion, scale>>),
              Paint("stripes", <<hue + 180 * DEG, scale>>, BlankImage, FALSE),
              Restore >>)

renderLinearMoire(c, hue, distortion, scale, seed) ==
    Run(c, << SetGco("difference"),
              Paint("stripes", <<hue, scale>>, BlankImage, FALSE),
              Save, Transform("translate", <<1>>), Transform("rotate", <<distortion>>),
              Transform("translate", <<-1>>), Transform("translate", <<distortion, scale>>),
              Paint("stripes", <<hue + 180 * DEG, scale>>, BlankImage, FALSE),
              Restore, SetGco("source-over") >>)

renderGlassRefraction(c, distortion, scale, seed) ==
    Run(c, << ReadCanvas, PutImageData("ripple", <<distortion, scale, seed>>) >>)

\* renderKaleidoscope; Segment(i) is one wedge, i counted from 0
renderKaleidoscope(c, distortion, scale) ==
    LET temp == c.buf
        segments == 4 + (scale * 12) \div (100 * ONE)
        Segment(i) ==
            << Save, Transform("translate", <<1>>),
               Transform("rotate", <<i, segments, distortion>>), Clip(<<segments>>) >>
            \o (IF i % 2 = 1 THEN << Transform("scale", <<-1, 1>>) >> ELSE <<>>)
            \o << Transform("rotate", <<-90>>), Transform("translate", <<-1>>),
                  Paint("drawImage", <<>>, temp, FALSE), Restore >>
    IN  Run(c, << ReadCanvas, Paint("#000", <<>>, BlankImage, TRUE) >>
               \o Flatten([i \in 1..segments |->
                              Segment(i - 1)]))

\* PixelBlockSize with the scale term growing with scale
PixelBlockSizeGrowing(scale, distortion) ==
    LET raw == 4 * ONE + (scale * 40) \div 100 + (distortion * 20) \div 100
    IN  IF raw > 4 * ONE THEN raw ELSE 4 * ONE

\* blockSize of renderPixelate, in hundredths of a pixel
PixelBlockSize(scale, distortion) ==
    LET raw == 4 * ONE + ((100 * ONE - scale) * 40) \div 100 + (distortion * 20) \div 100
    IN  IF raw > 4 * ONE THEN raw ELSE 4 * ONE

renderPixelate(c, distortion, scale) ==
    LET blockSize == PixelBlockSize(scale, distortion)
        temp == << Layer("drawImage", <<blockSize>>, c.buf,
                         [DefaultDrawState EXCEPT !.smoothing = FALSE]) >>
    IN  Run(c, << ReadCanvas, SetState("smoothing", FALSE),
                  Paint("drawImage", <<blockSize>>, temp, FALSE),
                  SetState("smoothing", TRUE) >>)

renderScanline(c, distortion, scale) ==
    LET floored == 2 + (scale * 6) \div (100 * ONE)
        lineSize == IF floored > 2 THEN floored ELSE 2
        copy == c.buf
        shift == distortion \div 10
        aberration ==
            IF distortion > 10 * ONE
            THEN << ReadCanvas, SetGco("screen"), Paint("black", <<>>, BlankImage, FALSE),
                    Paint("drawImage", <<-shift>>, copy, FALSE), SetGco("multiply"),
                    Paint("#f00", <<>>, BlankImage, FALSE), SetGco("screen"),
                    Paint("drawImage", <<0>>, copy, FALSE), SetGco("multiply"),
                    Paint("#0f0", <<>>, BlankImage, FALSE), SetGco("screen"),
                    Paint("drawImage", <<shift>>, copy, FALSE), SetGco("multiply"),
                    Paint("#00f", <<>>, BlankImage, FALSE), SetGco("source-over") >>
            ELSE <<>>
    IN  Run(c, aberration
               \o << SetGco("multiply"),
                     Paint("scanlines", <<lineSize, distortion>>, BlankImage, FALSE),
                     SetGco("source-over") >>)

\* VortexSkips with the threshold included
VortexSkipsUpTo(distortion) == distortion <= 5 * ONE

\* if (distortion < 5) return
VortexSkips(distortion) == distortion < 5 * ONE

renderVortex(c, distortion, scale) ==
    IF VortexSkips(distortion)
    THEN c
    ELSE Run(c, << ReadCanvas, PutImageData("vortex", <<distortion, scale>>) >>)

\* renderFluxToCanvas, step 1
BaseStage(c, a) ==
    drawPsychedelicField(Apply(c, Stage("base")), a.hue, a.spectra, a.seed)

\* step 2, the switch on the pattern
PatternStage(c, a) ==
    LET c1 == Apply(c, Stage("pattern"))
    IN  CASE a.pattern = "wave" -> renderLiquidWave(c1, a.distortion, a.scale, a.seed)
          [] a.pattern = "prism" -> renderLinearPrism(c1, a.distortion, a.spectra, a.seed)
          [] a.pattern = "glitch" -> renderDataMosh(c1, a.distortion, a.seed)
          [] a.pattern = "turbulence" -> renderFluidDisplacement(c1, a.distortion, a.scale, a.seed)
          [] a.pattern = "interference" -> renderLinearMoire(c1, a.hue, a.distortion, a.scale, a.seed)
          [] a.pattern = "ripple" -> renderGlassRefraction(c1, a.distortion, a.scale, a.seed)
          [] a.pattern = "kaleido" -> renderKaleidoscope(c1, a.distortion, a.scale)
          [] a.pattern = "pixelate" -> renderPixelate(c1, a.distortion, a.scale)
          [] a.pattern = "scanline" -> renderScanline(c1, a.distortion, a.scale)
          [] a.pattern = "vortex" -> renderVortex(c1, a.distortion, a.scale)

\* step 3, the smudge
SmudgeStage(c, a) ==
    IF a.smudgeActive /\ a.smudgeFactor > 0
    THEN Run(c, << Stage("smudge"), ReadCanvas, Save, SetState("filter", "blur"),
                   Paint("drawImage", <<a.smudgeFactor>>, c.buf, FALSE),
                   SetState("filter", "none"), Restore >>)
    ELSE c

\* ExposureStage without the test exposure !== 50
ExposureStageAlways(c, a) ==
    Run(c, << Stage("exposure"),
              SetGco(IF a.exposure > 50 * ONE THEN "soft-light" ELSE "multiply"),
              Paint("exposure", <<a.exposure>>, BlankImage, FALSE),
              SetGco("source-over") >>)

\* step 4, the exposure
ExposureStage(c, a) ==
    IF a.exposure # 50 * ONE
    THEN Run(c, << Stage("exposure"),
                   SetGco(IF a.exposure > 50 * ONE THEN "soft-light" ELSE "multiply"),
                   Paint("exposure", <<a.exposure>>, BlankImage, FALSE),
                   SetGco("source-over") >>)
    ELSE c

\* PostChain with the exposure composited before the smudge
PostChainSwapped(c, a) == SmudgeStage(ExposureStage(c, a), a)

PostChain(c, a) == ExposureStage(SmudgeStage(c, a), a)

\* the counters and the stage list start afresh with every call
renderFluxToCanvas(c, a) ==
    PostChain(PatternStage(BaseStage([c EXCEPT !.reads = 0, !.ops = 0, !.log = <<>>], a), a), a)

\* The render pipeline on its own: a canvas that is rendered to again and
\* again, each call with arguments drawn from RenderInputs.
RenderInputs ==
    { FluxArgs(DefaultApp.fluxHue, DefaultApp.fluxSpectra * ONE, e, d,
               DefaultApp.fluxIso * ONE, DefaultApp.fluxSeed, FLUX_PATTERNS[i],
               sm[1], sm[2]) :
        e \in {50 * ONE, 80 * ONE}, d \in {4 * ONE, 30 * ONE},
        i \in 1..Len(FLUX_PATTERNS),
        sm \in { <<FALSE, 50>>, <<TRUE, 0>>, <<TRUE, 50>> } }

LiveSize == 1

\* what a stage left: the image and the accesses counted so far
Snapshot(c) == [buf |-> c.buf, reads |-> c.reads, ops |-> c.ops]

InitRender ==
    /\ ProgramInit
    /\ probe = [ctx |-> NewContext(LiveSize), calls |-> 0,
                args |-> FluxArgs(0, 0, 0, 0, 0, 0, "none", FALSE, 0),
                before |-> "none",
                base |-> Snapshot(NewContext(LiveSize)),
                mid |-> Snapshot(NewContext(LiveSize))]

\* renderStaticFlux and the loop, from getContext on: the transform is
\* reset and renderFluxToCanvas is called; before is the pattern of the
\* call before this one.
renderCall(a) ==
    LET c0 == [probe.ctx EXCEPT !.ds.xform = <<>>, !.reads = 0, !.ops = 0, !.log = <<>>]
        base == BaseStage(c0, a)
        mid == PatternStage(base, a)
    IN  /\ probe' = [ctx |-> PostChain(mid, a),
                     calls |-> IF probe.calls < 2 THEN probe.calls + 1 ELSE 2,
                     args |-> a, before |-> probe.args.pattern,
                     base |-> Snapshot(base), mid |-> Snapshot(mid)]
        /\ UNCHANGED programVars

SpecRender == InitRender /\ [][\E a \in RenderInputs : renderCall(a)]_vars

\* generateFluxImage: the export canvas, the render, the two grain
\* textures, each awaited, and the encoding.
ExportSize == 2

\* CoarseGrainOn without the test
CoarseGrainAlways(grain) == TRUE

\* if (grain > 0)
CoarseGrainOn(grain) == grain > 0

\* the body of an img.onload handler
GrainLayer(c, name, alpha, p) ==
    Run(c, << Stage(name), Save, SetGco("overlay"), SetState("alpha", alpha),
              Paint("noise", p, BlankImage, FALSE), Restore >>)

\* return canvas.toDataURL('image/png')
Encode(x) ==
    [x EXCEPT !.pc = "done", !.encoded = x.ctx.buf,
              !.ctx = Apply(@, Stage("encode"))]

\* step 3: a new Image whose src is the fine noise, awaited; or the return
FineGrainStep(x) ==
    IF x.fineGrain > 0
    THEN [x EXCEPT !.pc = "fine", !.textures = @ \cup {"fine"}, !.awaits = @ + 1,
                   !.ctx = Apply(@, Stage("fine load"))]
    ELSE Encode(x)

\* step 2: a new Image whose src is the coarse noise, awaited; or step 3
CoarseGrainStep(x) ==
    IF CoarseGrainOn(x.grain)
    THEN [x EXCEPT !.pc = "coarse", !.textures = @ \cup {"coarse"}, !.awaits = @ + 1,
                   !.ctx = Apply(@, Stage("coarse load"))]
    ELSE FineGrainStep(x)

InitPipeline ==
    /\ ProgramInit
    /\ probe = [pc |-> "idle", ctx |-> NewContext(ExportSize),
                args |-> FluxArgs(0, 0, 0, 0, 0, 0, "none", FALSE, 0),
                grain |-> 0, fineGrain |-> 0, textures |-> {}, awaits |-> 0,
                encoded |-> BlankImage]

\* the call, up to the first await or the return
generateFluxImage(a, grain, fineGrain) ==
    /\ probe.pc = "idle"
    /\ probe' = CoarseGrainStep([probe EXCEPT
                    !.ctx = renderFluxToCanvas(NewContext(ExportSize), a),
                    !.args = a, !.grain = grain, !.fineGrain = fineGrain])
    /\ UNCHANGED programVars

\* img.onload of the coarse texture, and what follows the await
coarseOnload ==
    /\ probe.pc = "coarse"
    /\ probe' = FineGrainStep([probe EXCEPT
                    !.ctx = GrainLayer(@, "coarse", probe.grain * 8, <<probe.args.scale>>)])
    /\ UNCHANGED programVars

\* img.onload of the fine texture, and what follows the await
fineOnload ==
    /\ probe.pc = "fine"
    /\ probe' = Encode([probe EXCEPT
                    !.ctx = GrainLayer(@, "fine", probe.fineGrain * 5, <<>>)])
    /\ UNCHANGED programVars

NextPipeline ==
    \/ \E a \in RenderInputs, g \in {0, 40}, fg \in {0, 30} :
          generateFluxImage(a, g, fg)
    \/ coarseOnload
    \/ fineOnload

SpecPipeline == InitPipeline /\ [][NextPipeline]_vars

\* ------------------------------------------------- per-pixel transforms
\* The pixel loops of Wave, Ripple, Turbulence and Vortex on a buffer of
\* PixWidth x PixHeight pixels, one pixel a step.  What the sines, the
\* noise and the polar remap give for a pixel is any whole number within
\* the amplitude, so every coordinate the arithmetic can reach is tried.
PixWidth == 4
PixHeight == 3
MaxWaveShift == 1     \* |xShift|, |yShift| after Math.floor
MaxWaveSplit == 1     \* split
DisplaceShifts == {-5, -1, 0, 1, 5}   \* Math.floor(n * str)

PixCount == PixWidth * PixHeight

\* getIdx of renderLiquidWave, one axis
MirrorCoord(v, size) ==
    LET a == IF v < 0 THEN -v ELSE v
    IN  IF a >= size THEN size - (a % size) - 1 ELSE a

getIdx(xx, yy) == (MirrorCoord(yy, PixHeight) * PixWidth + MirrorCoord(xx, PixWidth)) * 4

\* ClampCoord that wraps around
ClampCoordWrap(v, size) == v % size

\* if(sx<0)sx=0; if(sx>=width)sx=width-1
ClampCoord(v, size) == IF v < 0 THEN 0 ELSE IF v >= size THEN size - 1 ELSE v

\* a read of the source pixel (sx, sy), reached from the coordinate (xx, yy)
SourceRead(xx, yy, sx, sy, idx) == [xx |-> xx, yy |-> yy, sx |-> sx, sy |-> sy, idx |-> idx]

MirrorRead(xx, yy, channel) ==
    SourceRead(xx, yy, MirrorCoord(xx, PixWidth), MirrorCoord(yy, PixHeight),
               getIdx(xx, yy) + channel)

ClampedRead(xx, yy) ==
    LET sx == ClampCoord(xx, PixWidth)
        sy == ClampCoord(yy, PixHeight)
    IN  SourceRead(xx, yy, sx, sy, (sy * PixWidth + sx) * 4)

\* the transform and the distortion of a pass
PassInputs ==
    ({"wave", "ripple", "turbulence"} \X {30 * ONE}) \cup ({"vortex"} \X {3 * ONE, 499, 5 * ONE, 30 * ONE})

InitPixels ==
    /\ ProgramInit
    /\ probe \in { [fn |-> in[1], distortion |-> in[2], pc |-> "start", pos |-> 0,
                    got |-> FALSE, put |-> FALSE,
                    out |-> [i \in 0..(PixCount - 1) |-> 0], last |-> <<>>] :
                   in \in PassInputs }

\* the statements before the loops: the cost guard of Vortex, getImageData
\* and createImageData (whose pixels are transparent)
beginPass ==
    /\ probe.pc = "start"
    /\ probe' = IF probe.fn = "vortex" /\ VortexSkips(probe.distortion)
                THEN [probe EXCEPT !.pc = "done"]
                ELSE [probe EXCEPT !.pc = "loop", !.got = TRUE]
    /\ UNCHANGED programVars

\* one pixel written to the output image, alpha 255
WritePixel(reads) ==
    /\ probe.pc = "loop"
    /\ probe.pos < PixCount
    /\ probe' = [probe EXCEPT !.out[probe.pos] = 255, !.pos = @ + 1, !.last = reads]
    /\ UNCHANGED programVars

renderLiquidWavePixel(dx, dy, split) ==
    LET x == probe.pos % PixWidth
        y == probe.pos \div PixWidth
        gx == x + dx
        gy == y + dy
    IN  /\ probe.fn = "wave"
        /\ WritePixel(<< MirrorRead(gx - split, gy, 0), MirrorRead(gx, gy, 1),
                         MirrorRead(gx + split, gy, 2) >>)

renderGlassRefractionPixel(dx, dy) ==
    /\ probe.fn = "ripple"
    /\ WritePixel(<< ClampedRead((probe.pos % PixWidth) + dx, (probe.pos \div PixWidth) + dy) >>)

renderFluidDisplacementPixel(dx, dy) ==
    /\ probe.fn = "turbulence"
    /\ WritePixel(<< ClampedRead((probe.pos % PixWidth) + dx, (probe.pos \div PixWidth) + dy) >>)

\* the sample (isx, isy) is copied when it is inside, else the pixel is black
renderVortexPixel(isx, isy) ==
    /\ probe.fn = "vortex"
    /\ WritePixel(IF isx >= 0 /\ isx < PixWidth /\ isy >= 0 /\ isy < PixHeight
                  THEN << SourceRead(isx, isy, isx, isy, (isy * PixWidth + isx) * 4) >>
                  ELSE <<>>)

\* ctx.putImageData(output, 0, 0) after the loops
putImageData ==
    /\ probe.pc = "loop"
    /\ probe.pos = PixCount
    /\ probe' = [probe EXCEPT !.pc = "done", !.put = TRUE]
    /\ UNCHANGED programVars

NextPixels ==
    \/ beginPass
    \/ \E dx, dy \in (-MaxWaveShift)..MaxWaveShift, split \in 0..MaxWaveSplit :
          renderLiquidWavePixel(dx, dy, split)
    \/ \E dx, dy \in DisplaceShifts : renderGlassRefractionPixel(dx, dy)
    \/ \E dx, dy \in DisplaceShifts : renderFluidDisplacementPixel(dx, dy)
    \/ \E isx \in (-1)..PixWidth, isy \in (-1)..PixHeight : renderVortexPixel(isx, isy)
    \/ putImageData

SpecPixels == InitPixels /\ [][NextPixels]_vars

\* The block size of Pixelate on its own, for every whole scale and
\* distortion the knobs can give.
KnobMax == 100

InitPixelate ==
    /\ ProgramInit
    /\ probe \in { [scale |-> sc, distortion |-> d, done |-> FALSE, blockSize |-> 0] :
                   sc \in 0..KnobMax, d \in 0..KnobMax }

\* const blockSize = ...
renderPixelateBlockSize ==
    /\ ~probe.done
    /\ probe' = [probe EXCEPT !.done = TRUE,
                              !.blockSize = PixelBlockSize(probe.scale * ONE,
                                                           probe.distortion * ONE)]
    /\ UNCHANGED programVars

SpecPixelate == InitPixelate /\ [][renderPixelateBlockSize]_vars

\* The persisted hues under the hue knobs, the randomize button and audio
\* sessions whose ticks add a fraction of a degree.
RangeDrags == {-270, 76, 146}

NextRange ==
    \/ PassiveEffects
    \/ \E f \in { Silence, [bass |-> 100, mid |-> 100, high |-> 90] } : loop(f)
    \/ renderStaticFlux
    \/ toggleAudioSyncStart
    \/ startGranted
    \/ toggleAudioSyncStop
    \/ \E m \in {"chroma", "flux"} : setSystemMode(m)
    \/ updateCanvasDims
    \/ \E d \in RangeDrags : onHueChange(d)
    \/ \E d \in RangeDrags : onHueBChange(d)
    \/ \E d \in RangeDrags : onFluxHueChange(d)
    \/ \E r \in RandomDraws : handleRandomize(r)

SpecRange == Init /\ [][NextRange]_vars

\* ------------------------------------------------------------ share link
\* decodeSignal: JSON.parse(atob(str)).  A signal is the list of key/value
\* pairs that were written; parsing gives the object holding, for every key
\* present, the value written last.  A string that is no such list (here:
\* one with a truncated pair) makes the parse throw and the result is null,
\* which like the empty object has no key at all.
decodeSignal(str) ==
    IF \A i \in 1..Len(str) : Len(str[i]) = 2
    THEN [k \in {str[i][1] : i \in 1..Len(str)} |->
            str[CHOOSE i \in 1..Len(str) :
                   /\ str[i][1] = k
                   /\ \A j \in (i + 1)..Len(str) : str[j][1] # k][2]]
    ELSE <<>>

\* The page is opened, or reloaded, with signal in its address: a new
\* session in which the URL load effect (part_005:316-352) calls a setter
\* for every key it knows that the decoded object holds.  It runs with the
\* other mount effects, so the values it sets are committed afterwards.
mountWithSignal(signal) ==
    LET d == decodeSignal(signal)
        Has(k) == k \in DOMAIN d
        Get(k, old) == IF Has(k) THEN d[k] ELSE old
        a == DefaultApp
        loaded ==
            [ a EXCEPT
                !.systemMode = IF Has("m") /\ d["m"] # "" THEN d["m"] ELSE @,
                !.hue = Get("h", @), !.sat = Get("s", @), !.lum = Get("l", @),
                !.hueB = Get("hb", @), !.satB = Get("sb", @), !.lumB = Get("lb", @),
                !.gradientType = Get("gt", @), !.gradientAngle = Get("ga", @),
                !.noise = Get("n", @), !.fineGrain = Get("fg", @),
                !.smudgeActive = Get("sa", @), !.smudgeFactor = Get("sf", @),
                !.vignette = Get("v", @), !.noiseType = Get("nt", @),
                !.blendMode = Get("bm", @),
                !.fluxHue = Get("fh", @), !.fluxSpectra = Get("fs", @),
                !.fluxExposure = Get("fe", @), !.fluxDistortion = Get("fd", @),
                !.fluxGrain = Get("fgr", @), !.fluxFineGrain = Get("ffg", @),
                !.fluxSmudgeActive = Get("fsa", @), !.fluxSmudgeFactor = Get("fsf", @),
                !.fluxIso = Get("fi", @), !.fluxSeed = Get("fseed", @),
                !.fluxPattern = Get("fp", @) ]
    IN  /\ signal # NoSignal
        /\ urlSignal' = signal
        /\ app' = loaded
        /\ stateRef' = DefaultApp
        /\ staticPending' = FALSE
        /\ urlTimer' = encodeSignal(Payload(DefaultApp))
        /\ effectPending' = [ref |-> loaded # DefaultApp,
                             url |-> Payload(loaded) # Payload(DefaultApp)]
        /\ hueOffset' = 0
        /\ audioContextRef' = NULL /\ analyserRef' = NULL
        /\ openContexts' = {} /\ pendingStarts' = 0
        /\ chromaStyle' = NoStyle /\ fluxFrame' = NoFrame
        /\ showCode' = FALSE
        /\ isGenerating' = FALSE /\ exportCall' = NoExport /\ exportPc' = "idle"
        /\ lastOp' = Op("load")
        /\ UNCHANGED <<started, edits, probe>>

\* A session whose link is written to the address by the timer and opened
\* again, and links arriving from outside: one that sets a few fields in
\* range, one edited by hand to values out of range, one cut short.
SpecLink ==
    Init /\ [][\/ PassiveEffects
               \/ UrlTimerFires
               \/ renderStaticFlux
               \/ \E m \in {"chroma", "flux"} : setSystemMode(m)
               \/ updateCanvasDims
               \/ \E dy \in DeltaYs : onHueChange(dy)
               \/ \E r \in RandomDraws : handleRandomize(r)
               \/ mountWithSignal(urlSignal)
               \/ \E link \in { << <<"m", "flux">>, <<"fs", 80>>, <<"fp", "kaleido">> >>,
                                << <<"m", "flux">>, <<"fh", 720 * DEG>>, <<"fd", 250>>,
                                   <<"fi", -5>>, <<"fp", "plasma">> >>,
                                << <<"m", "flux">>, <<"fh">> >> } :
                     mountWithSignal(link)]_vars

\* The Glitch transform on its own, for every whole distortion the knob
\* can give, on a canvas holding the base field.
renderDataMoshCall ==
    LET base == BaseStage(NewContext(LiveSize), StaticArgs(DefaultApp))
    IN  /\ ~probe.done
        /\ probe' = [probe EXCEPT
                        !.done = TRUE,
                        !.ctx = renderDataMosh(base, probe.distortion * ONE,
                                               DefaultApp.fluxSeed)]
        /\ UNCHANGED programVars

SpecGlitch ==
    /\ InitProbe({ [distortion |-> d, done |-> FALSE, ctx |-> NewContext(LiveSize)] :
                   d \in 0..KnobMax })
    /\ [][renderDataMoshCall]_vars

\* -------------------------------------------------------- pattern button
MaxPresses == 10   \* presses of the pattern button in one behaviour

\* The updater cycleFluxPattern hands to setFluxPattern, applied to the
\* pattern selected; start, presses and seen record where the presses began,
\* how many were made and which patterns were selected on the way.
setFluxPatternNext ==
    /\ probe.presses < MaxPresses
    /\ probe' = [probe EXCEPT !.pattern = NextPattern(@),
                              !.presses = @ + 1,
                              !.seen = @ \cup {NextPattern(probe.pattern)}]
    /\ UNCHANGED programVars

SpecCycle ==
    /\ InitProbe({ [start |-> FLUX_PATTERNS[i], pattern |-> FLUX_PATTERNS[i],
                    presses |-> 0, seen |-> {FLUX_PATTERNS[i]}] :
                  i \in 1..Len(FLUX_PATTERNS) })
    /\ [][setFluxPatternNext]_vars

\* ------------------------------------------------------------ properties
\* the persisted hue of the mode the device is in
ActiveHue(a) == IF a.systemMode = "chroma" THEN a.hue ELSE a.fluxHue

\* the hue the next frame shows, given the loop's snapshot and the accumulator
NextFrameHue(state, offset) ==
    IF state.audioSync THEN (ActiveHue(state) + offset) % FULL ELSE ActiveHue(state)

\* a tick that read the analyser: the snapshot says sync is on and an
\* analyser exists (neither is changed by the tick itself)
AnalysedTick == stateRef.audioSync /\ analyserRef # NULL

\* C1: sticky bake.  A stop that finds the accumulator at D leaves the
\* persisted hue of the active mode (both channels in chroma mode) at
\* (h + D) mod 360 and the accumulator at 0, so a further stop reached with
\* no tick above the threshold in between adds nothing: D is applied once.
C1_StickyBake ==
    [][lastOp'.op = "stop" =>
          /\ app'.systemMode = app.systemMode
          /\ ActiveHue(app') = (ActiveHue(app) + hueOffset) % FULL
          /\ (app.systemMode = "chroma" => app'.hueB = (app.hueB + hueOffset) % FULL)
          /\ hueOffset' = 0
          /\ (hueOffset = 0 => ActiveHue(app') = ActiveHue(app))]_vars

\* a stop in flux mode has baked a non-zero accumulator into the flux hue
C1_Witness ==
    /\ lastOp.op = "stop"
    /\ app.systemMode = "flux"
    /\ edits = 0
    /\ app.fluxHue = DefaultApp.fluxHue + 4 * DEG
    /\ hueOffset = 0

\* C2: a stop is atomic for the frame callbacks.  The step that resets the
\* accumulator also installs the baked hue in the snapshot the loop reads
\* and turns the snapshot's audioSync off, so no tick sees one without the
\* other; when the snapshot was current, the hue the next frame shows is
\* the same before and after the stop, (h + D) mod 360.
C2_StopAtomic ==
    [][lastOp'.op = "stop" =>
          /\ stateRef' = app'
          /\ ~stateRef'.audioSync
          /\ hueOffset' = 0
          /\ (stateRef = app =>
                NextFrameHue(stateRef', hueOffset') = NextFrameHue(stateRef, hueOffset))]_vars

\* the first frame drawn after a stop shows the baked hue
C2_Witness ==
    /\ fluxFrame.by = "static"
    /\ ~app.audioSync /\ ~stateRef.audioSync
    /\ edits = 0
    /\ hueOffset = 0
    /\ app.fluxHue = DefaultApp.fluxHue + 2 * DEG
    /\ fluxFrame.args.hue = app.fluxHue

\* C3: the tick rule.  A tick that analyses audio of volume v adds exactly
\* 4 v degrees to the accumulator when v > 0.02 and nothing otherwise; while
\* audio sync is on, no step other than a stop lowers the accumulator.
C3_TickRule ==
    [][/\ (lastOp'.op = "tick" /\ AnalysedTick =>
             LET sum == lastOp'.audio.bass + lastOp'.audio.mid + lastOp'.audio.high
             IN  IF sum * 50 > 3 * ONE
                 THEN 3 * ONE * (hueOffset' - hueOffset) = 4 * DEG * sum
                 ELSE hueOffset' = hueOffset)
       /\ (app.audioSync /\ lastOp'.op # "stop" => hueOffset' >= hueOffset)]_vars

\* a silent tick was analysed and the accumulated offset is still there
C3_Witness ==
    /\ lastOp = [op |-> "tick", audio |-> Silence]
    /\ app.audioSync
    /\ AnalysedTick
    /\ hueOffset = 4 * DEG

\* the configuration without the fields a stop writes
NonHue(a) == [a EXCEPT !.hue = 0, !.hueB = 0, !.fluxHue = 0, !.audioSync = FALSE]

\* C4: effective parameters are never written back.  A step that runs the
\* loop or draws a frame changes no configuration field and neither the
\* share-link in the URL nor the pending write of it; a stop changes the
\* hue fields and audioSync only; the URL only ever receives the payload a
\* pending write holds, which is built from the committed configuration.
C4_NoWriteBack ==
    [][/\ (lastOp'.op = "tick" \/ fluxFrame' # fluxFrame =>
             app' = app /\ urlSignal' = urlSignal /\ urlTimer' = urlTimer)
       /\ (lastOp'.op = "stop" => NonHue(app') = NonHue(app))
       /\ (lastOp'.op \notin {"edit", "stop"} =>
             /\ app'.fluxHue = app.fluxHue
             /\ app'.hue = app.hue /\ app'.hueB = app.hueB)
       /\ (urlSignal' # urlSignal => urlSignal' = urlTimer)
       /\ (urlTimer' \notin {urlTimer, NoTimer} =>
             urlTimer' \in {encodeSignal(Payload(app)), encodeSignal(Payload(app'))})]_vars

\* a tick has drawn a frame with modulated distortion, scale and spectra
\* while the configuration and the URL written from it keep the defaults
C4_Witness ==
    /\ lastOp.op = "tick"
    /\ app.audioSync
    /\ hueOffset > 0
    /\ fluxFrame.by = "loop"
    /\ fluxFrame.args.distortion = (DefaultApp.fluxDistortion + BassDistortion) * ONE
    /\ fluxFrame.args.scale = (DefaultApp.fluxIso + BassIso) * ONE
    /\ app.fluxDistortion = DefaultApp.fluxDistortion
    /\ app.fluxIso = DefaultApp.fluxIso
    /\ app.fluxHue = DefaultApp.fluxHue
    /\ urlSignal = encodeSignal(Payload(app))

\* C5: a failed start stays Idle.  When getUserMedia rejects, audio sync
\* was off and stays off, and the configuration and the accumulator are
\* what they were.  Refuted: a second request made while the first was
\* pending rejects after the first has turned audio sync on.
C5_FailedStartStaysIdle ==
    [][lastOp'.op = "fail" =>
          /\ ~app.audioSync
          /\ app' = app
          /\ hueOffset' = hueOffset]_vars

\* C6: once a stop has run, no AudioContext made by an earlier start is open.
\* Refuted: two overlapping requests both resolve and the stop closes only
\* the context audioContextRef holds.
C6_HandlesReleased == lastOp.op = "stop" => openContexts = {}

\* C7: an export of the flux canvas passes renderFluxToCanvas the arguments
\* of the frame on the canvas, when that frame was drawn from the
\* configuration the export reads.  Refuted: the loop draws modulated
\* values while audio sync is on, the export passes the persisted ones.
C7_ExportMatchesFrame ==
    (/\ lastOp.op = "export"
     /\ exportCall.kind = "flux"
     /\ fluxFrame.by # "none"
     /\ fluxFrame.snap = app)
    => exportCall.args = fluxFrame.args

\* C8: the effective hue (hue + hueOffset) mod 360 lies in [0, 360) and is
\* congruent to hue + hueOffset, for persisted hues in [0, 360) and every
\* accumulator the tick rule reaches, beyond 360 and at fractions of a degree.
C8_HueWraps ==
    probe # NoProbe =>
        /\ probe.eff >= 0 /\ probe.eff < FULL
        /\ (probe.hue + probe.offset - probe.eff) % FULL = 0

\* a fractional accumulator beyond a full turn has wrapped the hue
C8_Witness ==
    /\ probe # NoProbe
    /\ probe.offset > FULL
    /\ probe.offset % DEG # 0
    /\ probe.hue = FULL - 1
    /\ probe.eff < probe.hue

\* the arguments the documented rule gives for configuration c
EffectiveArgs(c, bass, high, offset) ==
    [ hue |-> (c.fluxHue + offset) % FULL,
      spectra |-> c.fluxSpectra * ONE + high * 100,
      exposure |-> c.fluxExposure * ONE,
      distortion |-> c.fluxDistortion * ONE + bass * 80,
      scale |-> c.fluxIso * ONE + bass * 50,
      seed |-> c.fluxSeed, pattern |-> c.fluxPattern,
      smudgeActive |-> c.fluxSmudgeActive, smudgeFactor |-> c.fluxSmudgeFactor ]

\* C9: a frame drawn while audio sync is on carries the modulated values of
\* its tick; a frame drawn while audio sync is off carries the persisted
\* values unmodified.  Refuted: after the rejected request of C5 the loop
\* still draws modulated frames from its snapshot while audio sync is off.
C9_EffectiveParameters ==
    fluxFrame.by # "none" =>
        fluxFrame.args =
            IF fluxFrame.listening
            THEN EffectiveArgs(fluxFrame.snap, fluxFrame.bass, fluxFrame.high, fluxFrame.offset)
            ELSE EffectiveArgs(fluxFrame.snap, 0, 0, 0)

\* C10: snapshot-then-render.  stateRef is only ever replaced by a whole
\* committed configuration (the one before or after the step), and every
\* frame drawn takes all its arguments from the one snapshot stateRef held
\* when the callback began.
C10_SnapshotThenRender ==
    [][/\ (stateRef' # stateRef => stateRef' \in {app, app'})
       /\ (fluxFrame' # fluxFrame =>
             /\ fluxFrame'.snap = stateRef
             /\ fluxFrame'.args =
                    IF fluxFrame'.by = "loop"
                    THEN EffectiveArgs(stateRef, fluxFrame'.bass, fluxFrame'.high, hueOffset')
                    ELSE EffectiveArgs(stateRef, 0, 0, 0))]_vars

\* a frame was drawn from a snapshot older than the committed hue
C10_Witness ==
    /\ lastOp.op = "tick"
    /\ fluxFrame.by = "loop"
    /\ fluxFrame.snap = stateRef
    /\ stateRef.fluxHue # app.fluxHue
    /\ effectPending.ref
    /\ fluxFrame.args.hue = (stateRef.fluxHue + hueOffset) % FULL

C12_RenderDeterminism ==
    probe.calls > 0 =>
        /\ probe.ctx.buf = renderFluxToCanvas(NewContext(LiveSize), probe.args).buf
        /\ probe.ctx.ds = DefaultDrawState
        /\ probe.ctx.stack = <<>>

\* a wave frame drawn after an interference frame and other frames
C12_Witness ==
    /\ probe.calls = 2
    /\ probe.before = "interference"
    /\ probe.args.pattern = "wave"
    /\ probe.ctx.buf # BlankImage

\* C14: post-chain no-op boundaries.  With exposure = 50 no exposure layer
\* is composited; with the smudge inactive or its factor 0 no blur is
\* applied; with both, the post chain neither reads nor paints and the
\* image is the one the pattern transform left.
C14_PostChainNoOp ==
    probe.calls > 0 =>
        LET a == probe.args
            exposureOff == a.exposure = 50 * ONE
            smudgeOff == ~a.smudgeActive \/ a.smudgeFactor = 0
            stages == {probe.ctx.log[i] : i \in 1..Len(probe.ctx.log)}
        IN  /\ exposureOff => "exposure" \notin stages
            /\ smudgeOff => "smudge" \notin stages
            /\ exposureOff /\ smudgeOff => Snapshot(probe.ctx) = probe.mid

\* a frame with the smudge on at factor 0 and exposure 50, after a frame
\* that ran both post stages
C14_Witness ==
    /\ probe.calls = 2
    /\ probe.args.exposure = 50 * ONE
    /\ probe.args.smudgeActive /\ probe.args.smudgeFactor = 0
    /\ probe.args.pattern = "prism"
    /\ Snapshot(probe.ctx) = probe.mid
    /\ probe.mid.ops > probe.base.ops

\* C13: pipeline order.  The stages of an export start in the order base
\* field, pattern transform, smudge, exposure, coarse grain, fine grain,
\* encoding; while a grain texture is loading nothing later has started;
\* and the image is encoded only when every enabled stage has run (and no
\* disabled one has).
C13_PipelineOrder ==
    LET order == << "base", "pattern", "smudge", "exposure", "coarse load",
                    "coarse", "fine load", "fine", "encode" >>
        Rank(stage) == CHOOSE i \in 1..Len(order) : order[i] = stage
        log == probe.ctx.log
        ran == {log[i] : i \in 1..Len(log)}
        a == probe.args
    IN  /\ \A i, j \in 1..Len(log) : i < j => Rank(log[i]) < Rank(log[j])
        /\ probe.pc = "coarse" => log[Len(log)] = "coarse load"
        /\ probe.pc = "fine" => log[Len(log)] = "fine load"
        /\ probe.pc = "done" =>
              /\ log[Len(log)] = "encode"
              /\ {"base", "pattern"} \subseteq ran
              /\ "smudge" \in ran <=> (a.smudgeActive /\ a.smudgeFactor > 0)
              /\ "exposure" \in ran <=> a.exposure # 50 * ONE
              /\ "coarse" \in ran <=> probe.grain > 0
              /\ "fine" \in ran <=> probe.fineGrain > 0
              /\ probe.encoded = probe.ctx.buf

\* an export with every stage enabled has been encoded
C13_Witness ==
    /\ probe.pc = "done"
    /\ probe.ctx.log = << "base", "pattern", "smudge", "exposure", "coarse load",
                          "coarse", "fine load", "fine", "encode" >>
    /\ probe.encoded # BlankImage

\* C15: grain skip.  With grain = 0 no coarse texture is created or awaited,
\* with fineGrain = 0 no fine texture; with both 0 the export is encoded in
\* the call itself, without any texture and without any await.
C15_GrainSkip ==
    /\ probe.grain = 0 => "coarse" \notin probe.textures
    /\ probe.fineGrain = 0 => "fine" \notin probe.textures
    /\ probe.grain = 0 /\ probe.fineGrain = 0 /\ probe.pc # "idle" =>
          /\ probe.pc = "done"
          /\ probe.textures = {}
          /\ probe.awaits = 0

\* an export with both grains at 0 is done, one with coarse grain only
\* would have awaited
C15_Witness ==
    /\ probe.pc = "done"
    /\ probe.grain = 0 /\ probe.fineGrain = 0
    /\ probe.args.pattern = "wave"
    /\ probe.awaits = 0
    /\ probe.encoded = probe.ctx.buf /\ probe.encoded # BlankImage

\* C16: the Vortex cost guard.  For a distortion below 5 the transform
\* returns without getImageData, without writing a pixel and without
\* putImageData, so the canvas keeps the base field; for a distortion of 5
\* or more every pixel of the image put on the canvas has been written.
C16_VortexGuard ==
    probe.fn = "vortex" /\ probe.pc = "done" =>
        IF probe.distortion < 5 * ONE
        THEN /\ ~probe.got /\ ~probe.put
             /\ \A i \in 0..(PixCount - 1) : probe.out[i] = 0
        ELSE /\ probe.got /\ probe.put
             /\ \A i \in 0..(PixCount - 1) : probe.out[i] = 255

\* a Vortex pass at distortion exactly 5 has put its image
C16_Witness ==
    /\ probe.fn = "vortex" /\ probe.pc = "done"
    /\ probe.distortion = 5 * ONE
    /\ probe.put
    /\ probe.last = <<>>

\* C18: the Wave edge policy.  Every read of a Wave pixel is inside the
\* buffer, and the pixel read is the mirror image of the coordinate under
\* one reflection rule, the same at the left and top as at the right and
\* bottom.  Refuted: a negative coordinate is mirrored about the centre of
\* pixel 0 (-1 reads 1), one beyond the size about the border (width reads
\* width - 1), so no one rule fits a read beyond the top right corner.
C18_WaveEdgePolicy ==
    LET \* a coordinate v mirrored at the ends of 0..size-1: about the centre
        \* of the end pixel, or about the border of the buffer
        Reflect(rule, v, size) ==
            IF rule = "pixel"
            THEN (IF v < 0 THEN -v ELSE IF v >= size THEN 2 * (size - 1) - v ELSE v)
            ELSE (IF v < 0 THEN -v - 1 ELSE IF v >= size THEN 2 * size - 1 - v ELSE v)
    IN
    probe.fn = "wave" =>
        \A i \in 1..Len(probe.last) :
            LET r == probe.last[i]
            IN  /\ r.idx >= 0 /\ r.idx < 4 * PixCount
                /\ \E rule \in {"pixel", "border"} :
                      /\ r.sx = Reflect(rule, r.xx, PixWidth)
                      /\ r.sy = Reflect(rule, r.yy, PixHeight)

\* C19: the Ripple and Turbulence edge policy.  The source pixel read is
\* the displaced coordinate clamped to the buffer: 0 for a coordinate below
\* 0, the last index for one at or beyond the size, the coordinate itself
\* otherwise; the three bytes read lie inside the buffer; and every pixel
\* written has alpha 255.
C19_ClampEdgePolicy ==
    probe.fn \in {"ripple", "turbulence"} =>
        /\ \A i \in 1..Len(probe.last) :
              LET r == probe.last[i]
              IN  /\ r.sx = (IF r.xx < 0 THEN 0 ELSE IF r.xx >= PixWidth THEN PixWidth - 1 ELSE r.xx)
                  /\ r.sy = (IF r.yy < 0 THEN 0 ELSE IF r.yy >= PixHeight THEN PixHeight - 1 ELSE r.yy)
                  /\ r.idx = (r.sy * PixWidth + r.sx) * 4
                  /\ r.idx >= 0 /\ r.idx + 2 < 4 * PixCount
        /\ \A i \in 0..(PixCount - 1) : probe.out[i] = (IF i < probe.pos THEN 255 ELSE 0)
        /\ probe.put => probe.pos = PixCount

\* the last pixel of a Ripple pass, displaced beyond the bottom right
\* corner, has read the last pixel of the buffer
C19_Witness ==
    /\ probe.fn = "ripple"
    /\ probe.pos = PixCount
    /\ Len(probe.last) = 1
    /\ probe.last[1].xx = PixWidth + 4 /\ probe.last[1].yy = PixHeight + 4
    /\ probe.last[1].idx = 4 * (PixCount - 1)

\* C17: the Pixelate block size.  For whole scale and distortion in
\* [0, 100] the block size is max(4, 4 + (100 - scale)/100*40 +
\* distortion/100*20) (here in hundredths of a pixel); it is never below 4,
\* it is exactly 4 at scale 100 and distortion 0, and at the same
\* distortion no larger scale gives a larger block.
C17_PixelateBlockSize ==
    probe.done =>
        LET formula == 400 + 40 * (100 - probe.scale) + 20 * probe.distortion
        IN  /\ probe.blockSize = (IF formula > 400 THEN formula ELSE 400)
            /\ probe.blockSize >= 400
            /\ (probe.scale = 100 /\ probe.distortion = 0 => probe.blockSize = 400)
            /\ \A larger \in probe.scale..KnobMax :
                  PixelBlockSize(larger * ONE, probe.distortion * ONE) <= probe.blockSize

\* the block size at scale 100 and distortion 0 has been computed
C17_Witness ==
    /\ probe.done
    /\ probe.scale = 100 /\ probe.distortion = 0
    /\ probe.blockSize = 400

\* C20: the persisted hue range.  After any sequence of hue-knob drags,
\* randomize presses and audio start, tick and stop cycles, the flux hue
\* and the two chroma hues are at least 0 and below 360.  Refuted: a stop
\* bakes a fraction of a degree into the hue, the knob then starts from
\* that fraction, and a drag that brings it to 359.5 or more is rounded to
\* 360.
C20_PersistedHueRange ==
    \A h \in {app.hue, app.hueB, app.fluxHue} : h >= 0 /\ h < FULL

\* C21: invalid parameters are clamped at the configuration boundary.  The
\* configuration a session starts with after loading a share link has both
\* chroma hues and the flux hue in [0, 360), the flux spectra, exposure,
\* distortion and scale in [0, 100], a pattern of the list and a mode of
\* the two.  Refuted: the URL load effect hands every decoded value to its
\* setter as it is.
C21_ClampAtBoundary ==
    [][lastOp'.op = "load" =>
          /\ \A h \in {app'.hue, app'.hueB, app'.fluxHue} : h >= 0 /\ h < FULL
          /\ \A v \in {app'.fluxSpectra, app'.fluxExposure, app'.fluxDistortion,
                       app'.fluxIso} : v >= 0 /\ v <= 100
          /\ \E i \in 1..Len(FLUX_PATTERNS) : FLUX_PATTERNS[i] = app'.fluxPattern
          /\ app'.systemMode \in {"chroma", "flux"}]_vars

\* C23: share-link round trip.  When the page is opened with a signal that
\* holds every key of the payload, which is what the URL write effect
\* writes, the session starts with every parameter at the value the signal
\* carries: encoding the loaded configuration gives the signal back.
\* Refuted: the load effect has no line for nf and no, so the noise
\* frequency and octaves of the encoded state are replaced by the defaults.
C23_LinkRoundTrip ==
    [][(lastOp'.op = "load" /\ Len(urlSignal') = Len(PayloadKeys)) =>
          encodeSignal(Payload(app')) = urlSignal']_vars

\* C24: pattern cycling.  From a pattern of the list, n presses of the
\* pattern button select the pattern n places further in the order wave,
\* interference, ripple, prism, turbulence, glitch, kaleido, pixelate,
\* scanline, vortex, counted round; so the selection is always one of the
\* ten, the first nine presses leave the starting pattern and between them
\* and the start select all ten, and the tenth press is back at the start.
C24_PatternCycle ==
    LET order == << "wave", "interference", "ripple", "prism", "turbulence",
                    "glitch", "kaleido", "pixelate", "scanline", "vortex" >>
        Place(p) == CHOOSE i \in 1..10 : order[i] = p
        all == {order[i] : i \in 1..10}
    IN  probe # NoProbe =>
          /\ probe.pattern \in all
          /\ probe.pattern = order[((Place(probe.start) - 1 + probe.presses) % 10) + 1]
          /\ (probe.presses \in 1..9 => probe.pattern # probe.start)
          /\ (probe.presses >= 9 => probe.seen = all)
          /\ (probe.presses = 10 => probe.pattern = probe.start)

\* ten presses from vortex, through wave, have come back to vortex
C24_Witness ==
    /\ probe # NoProbe
    /\ probe.start = "vortex" /\ probe.presses = 10
    /\ probe.pattern = "vortex"
    /\ Cardinality(probe.seen) = 10

\* C25: the stages of Glitch.  For every whole distortion from 0 to 100 the
\* transform recombines the colour channels (the red, blue and lime fills)
\* when the distortion is above 0, and displaces a number of slices that is
\* at least 5, at most 35 and not smaller than at the distortion one below.
\* Refuted: the channel pass needs floor(0.4 distortion) > 0, so it is
\* skipped at 1 and 2, and no slice at all is displaced up to distortion 5.
C25_GlitchStages ==
    LET Painted(c, what) == {i \in 1..Len(c.buf) : c.buf[i].what = what}
        Slices(c) == Cardinality(Painted(c, "slice"))
        below == renderDataMosh(NewContext(LiveSize), (probe.distortion - 1) * ONE,
                                DefaultApp.fluxSeed)
    IN  probe.done =>
          /\ (probe.distortion > 0 =>
                \A fill \in {"red", "blue", "lime"} : Painted(probe.ctx, fill) # {})
          /\ Slices(probe.ctx) >= 5 /\ Slices(probe.ctx) <= 35
          /\ (probe.distortion > 0 => Slices(probe.ctx) >= Slices(below))

\* C26: the accumulator is zero whenever Idle.  In every reachable state
\* with audio sync off the accumulator is 0: before the first start, after
\* a rejected start, after a stop, and after any tick that runs later.
\* Refuted: the rejected second request of C5 turns audio sync off without
\* the reset of the stop branch, and the loop goes on adding to it.
C26_IdleAccumulatorZero == ~app.audioSync => hueOffset = 0

\* C27: the bake uses the latest hue.  A stop commits (h + D) mod 360 with
\* h the hue persisted when the stop is made: when the user has changed
\* the hue while Listening, the result is built from the changed hue, not
\* from the one in the snapshot the loop still holds and not from the one
\* the last frame was drawn with.
C27_BakeUsesLatestHue ==
    [][lastOp'.op = "stop" =>
          LET latest == ActiveHue(app)
              Baked(h) == (h + hueOffset) % FULL
          IN  /\ ActiveHue(app') = Baked(latest)
              /\ (ActiveHue(stateRef) # latest =>
                    ActiveHue(app') # Baked(ActiveHue(stateRef)))
              /\ (fluxFrame.by # "none" /\ ActiveHue(fluxFrame.snap) # latest =>
                    ActiveHue(app') # Baked(ActiveHue(fluxFrame.snap)))]_vars

\* the loop drew a frame with the default flux hue and an offset, the hue
\* knob was turned to 359, and the stop baked the offset into 359
C27_Witness ==
    /\ lastOp.op = "stop"
    /\ app.systemMode = "flux"
    /\ edits = 1
    /\ fluxFrame.by = "loop" /\ fluxFrame.listening
    /\ fluxFrame.snap.fluxHue = DefaultApp.fluxHue
    /\ fluxFrame.offset > 0
    /\ app.fluxHue = (359 * DEG + fluxFrame.offset) % FULL

\* C28: the bake targets only the active mode.  A stop made in flux mode
\* adds the accumulator to the flux hue and leaves both chroma hues alone;
\* a stop made in chroma mode adds it to both chroma hues and leaves the
\* flux hue alone; no other parameter changes, the mode included, whichever
\* mode the device was in while the offset accumulated.
C28_BakeTargetsActiveMode ==
    [][lastOp'.op = "stop" =>
          /\ (app.systemMode = "flux" =>
                /\ app'.fluxHue = (app.fluxHue + hueOffset) % FULL
                /\ app'.hue = app.hue /\ app'.hueB = app.hueB)
          /\ (app.systemMode = "chroma" =>
                /\ app'.hue = (app.hue + hueOffset) % FULL
                /\ app'.hueB = (app.hueB + hueOffset) % FULL
                /\ app'.fluxHue = app.fluxHue)
          /\ [app' EXCEPT !.hue = 0, !.hueB = 0, !.fluxHue = 0, !.audioSync = TRUE]
               = [app EXCEPT !.hue = 0, !.hueB = 0, !.fluxHue = 0, !.audioSync = TRUE]]_vars

\* an offset accumulated in chroma mode was baked, after the switch to flux
\* mode, into the flux hue alone
C28_Witness ==
    /\ lastOp.op = "stop"
    /\ app.systemMode = "flux"
    /\ fluxFrame = NoFrame
    /\ chromaStyle = NoStyle
    /\ edits = 0
    /\ app.fluxHue = DefaultApp.fluxHue + 2 * DEG
    /\ app.hue = DefaultApp.hue /\ app.hueB = DefaultApp.hueB

\* C30: effective parameters stay in range.  A frame the loop draws while
\* Listening, from a snapshot whose distortion, scale and spectra are in
\* [0, 100], hands renderFluxToCanvas a distortion, a scale and a spectra
\* in [0, 100].  Refuted: the audio terms are added without a limit, so
\* the default distortion 30 under a full bass band arrives as 110.
C30_EffectiveInRange ==
    (/\ fluxFrame.by = "loop"
     /\ fluxFrame.listening
     /\ \A v \in {fluxFrame.snap.fluxDistortion, fluxFrame.snap.fluxIso,
                  fluxFrame.snap.fluxSpectra} : v >= 0 /\ v <= 100)
    => \A v \in {fluxFrame.args.distortion, fluxFrame.args.scale,
                 fluxFrame.args.spectra} : v >= 0 /\ v <= 100 * ONE

\* C22: surface acquisition failure.  When getContext gives no context the
\* export has failed before renderFluxToCanvas is called, while the
\* generating flag is up; the next thing the export does is the catch of
\* handleExport, with its alert and no download, which takes the flag
\* down; and that does happen.
C22_SurfaceFailure ==
    /\ [][/\ (lastOp'.op = "export" /\ exportPc' = "failed" =>
                /\ isGenerating'
                /\ (app.systemMode = "flux" => exportCall' = NoExport))
          /\ (exportPc = "failed" /\ exportPc' # "failed" =>
                /\ lastOp'.op = "alert"
                /\ exportPc' = "idle"
                /\ ~isGenerating')]_vars
    /\ (exportPc = "failed" ~> ~isGenerating)

\* the catch has run after a flux export that got no context
C22_Witness ==
    /\ lastOp.op = "alert"
    /\ app.systemMode = "flux"
    /\ exportPc = "idle" /\ exportCall = NoExport
    /\ ~isGenerating

\* C29: the export always settles.  Whenever the generating flag is up it
\* comes down again, whatever the grain settings and whether the textures
\* load or fail to.  Refuted: generateFluxImage waits for a promise that
\* only img.onload resolves, so after a load error of a grain texture the
\* flux export neither completes nor fails and the flag stays up.
C29_ExportSettles == isGenerating ~> ~isGenerating
====
